---- MODULE Spec2Model ----
(***************************************************************************)
(* kapa: a command line tool that loads a catalog of programming-language  *)
(* records from languages.json and lists, searches, filters or summarises  *)
(* it.  One behaviour of this module is one invocation of the binary:      *)
(* resolve the candidate paths, probe them, parse the first readable file, *)
(* run the command, exit (or panic on the way).                            *)
(*                                                                         *)
(* A string is a sequence of one-character strings, so that lower-casing,  *)
(* substring search and joining are computed and not assumed.              *)
(***************************************************************************)
EXTENDS Integers, Sequences, FiniteSets, TLC

VARIABLES
    cmd,        \* the parsed command (Cli::parse), fixed for the run
    exeOk,      \* env::current_exe() and .parent() both yield a value
    dataDirOk,  \* dirs::data_local_dir() yields a value
    fs,         \* the file behind each candidate path
    pc,         \* where main is: resolve, probe, parse, dispatch, exit, panicked
    idx,        \* the candidate find_map is at
    reads,      \* the paths fs::read_to_string was called on, in order
    data,       \* the text find_map returned
    languages,  \* the catalog load_languages returned
    filtered,   \* the records a search/year/creator command selected
    out,        \* what was printed on standard output, in order
    panicMsg,   \* the panic that ended the run, "" if none
    exitCode    \* the process exit status, -1 while running

vars == <<cmd, exeOk, dataDirOk, fs, pc, idx, reads, data, languages,
          filtered, out, panicMsg, exitCode>>

(***************************************************************************)
(* Bounds of the model.                                                    *)
(***************************************************************************)
MaxCat == 2     \* longest catalog of the query inputs
MaxYear == 2    \* years of the records run over 1..MaxYear

(***************************************************************************)
(* Strings.                                                                *)
(***************************************************************************)
SeqsUpTo(S, n) == UNION {[1..k -> S] : k \in 0..n}

\* char::to_lowercase on the alphabet of the model
ToLowerChar(c) ==
    CASE c = "A" -> "a"
      [] c = "B" -> "b"
      [] OTHER -> c

\* str::to_lowercase
ToLowercase(s) == [i \in 1..Len(s) |-> ToLowerChar(s[i])]

\* a faulty variant of StrContains: a prefix test
StrStartsWith(hay, needle) ==
    /\ Len(needle) <= Len(hay)
    /\ SubSeq(hay, 1, Len(needle)) = needle

\* str::contains with a string pattern: the needle occurs at some offset
StrContains(hay, needle) ==
    \E off \in 0..Len(hay) :
        /\ off + Len(needle) <= Len(hay)
        /\ SubSeq(hay, off + 1, off + Len(needle)) = needle

\* [String]::join(", ")
RECURSIVE JoinComma(_)
JoinComma(strs) ==
    IF Len(strs) = 0 THEN <<>>
    ELSE IF Len(strs) = 1 THEN strs[1]
    ELSE strs[1] \o <<",", " ">> \o JoinComma(Tail(strs))

(***************************************************************************)
(* Records, commands, files.                                               *)
(***************************************************************************)
Language(n, y, cs, ps) ==
    [name |-> n, year |-> y, creators |-> cs, paradigm |-> ps,
     typing |-> <<"s">>, influenced_by |-> <<>>]

Commands(op, n, y) == [op |-> op, name |-> n, year |-> y]

\* the paths array, in the order it is iterated
Paths ==
    <<"languages.json", "<exe dir>/languages.json",
      "/usr/local/share/kapa/languages.json",
      "<data_local_dir>/kapa/languages.json">>

NumPaths == Len(Paths)
PathNames == {Paths[i] : i \in 1..NumPaths}

Unreadable == [readable |-> FALSE, valid |-> FALSE, catalog |-> <<>>]
Malformed == [readable |-> TRUE, valid |-> FALSE, catalog |-> <<>>]
ValidFile(c) == [readable |-> TRUE, valid |-> TRUE, catalog |-> c]

(***************************************************************************)
(* Inputs.  The loader family varies the four candidate files and the two  *)
(* path resolutions over a few catalogs; the query family puts one catalog *)
(* in the working directory and varies it in the fields the command reads. *)
(***************************************************************************)
Years == 1..MaxYear

SearchNames ==
    {<<>>, <<"a">>, <<"A">>, <<"b">>, <<"a", "b">>, <<"A", "b">>,
     <<"b", "A">>, <<"B", "a">>}
Queries == {<<>>, <<"a">>, <<"A">>, <<"b">>, <<"A", "B">>, <<"b", "a">>}

CreatorLists ==
    {<<>>, << <<>> >>, << <<"a">> >>, << <<"b">>, <<"A">> >>,
     << <<"b">>, <<"b", "A">> >>, << <<"A", "b">>, <<"b">> >>}

ParadigmLists ==
    {<<>>, << <<"p">> >>, << <<"q">> >>, << <<"p">>, <<"p">> >>,
     << <<"p">>, <<"q">> >>}

PlainNames == {<<"a">>, <<"b">>}

SearchRecords == {Language(n, 1, <<>>, <<>>) : n \in SearchNames}
CreatorRecords == {Language(<<"a">>, 1, cs, <<>>) : cs \in CreatorLists}
YearRecords == {Language(n, y, <<>>, <<>>) : n \in PlainNames, y \in Years}
StatsRecords ==
    {Language(n, y, <<>>, ps) : n \in PlainNames, y \in Years, ps \in ParadigmLists}

QueryInputs ==
    {[cmd |-> Commands("search", q, 0), cat |-> c] :
        q \in Queries, c \in SeqsUpTo(SearchRecords, MaxCat)}
    \cup {[cmd |-> Commands("creator", q, 0), cat |-> c] :
        q \in Queries, c \in SeqsUpTo(CreatorRecords, MaxCat)}
    \cup {[cmd |-> Commands("year", <<>>, y), cat |-> c] :
        y \in 0..MaxYear, c \in SeqsUpTo(YearRecords, MaxCat)}
    \cup {[cmd |-> Commands("list", <<>>, 0), cat |-> c] :
        c \in SeqsUpTo(YearRecords, MaxCat)}
    \cup {[cmd |-> Commands("stats", <<>>, 0), cat |-> c] :
        c \in SeqsUpTo(StatsRecords, MaxCat)}

LoaderCatalogs ==
    {<<>>,
     <<Language(<<"a">>, 1, << <<"a">> >>, << <<"p">> >>)>>,
     <<Language(<<"b">>, 2, << <<"b">> >>, << <<"q">> >>)>>}
LoaderFiles == {Unreadable, Malformed} \cup {ValidFile(c) : c \in LoaderCatalogs}
LoaderCommands ==
    {Commands("list", <<>>, 0), Commands("search", <<"a">>, 0),
     Commands("year", <<>>, 1), Commands("creator", <<"a">>, 0),
     Commands("stats", <<>>, 0)}

Running ==
    /\ pc = "resolve"
    /\ idx = 1
    /\ reads = <<>>
    /\ data = Unreadable
    /\ languages = <<>>
    /\ filtered = <<>>
    /\ out = <<>>
    /\ panicMsg = ""
    /\ exitCode = -1

InitLoader ==
    /\ cmd \in LoaderCommands
    /\ exeOk \in BOOLEAN
    /\ dataDirOk \in BOOLEAN
    /\ fs \in [PathNames -> LoaderFiles]
    /\ Running

InitQuery ==
    /\ \E in \in QueryInputs :
        /\ cmd = in.cmd
        /\ fs = [p \in PathNames |->
                    IF p = "languages.json" THEN ValidFile(in.cat) ELSE Unreadable]
    /\ exeOk = TRUE
    /\ dataDirOk = TRUE
    /\ Running

Init == InitLoader \/ InitQuery

(***************************************************************************)
(* load_languages.                                                         *)
(***************************************************************************)
Panic(msg) ==
    /\ pc' = "panicked"
    /\ panicMsg' = msg
    /\ exitCode' = 101

\* a faulty variant of ResolvePaths: a failed resolution is skipped over, not unwrapped
ResolvePathsLazily ==
    /\ pc = "resolve"
    /\ pc' = "probe"
    /\ UNCHANGED <<cmd, exeOk, dataDirOk, fs, idx, reads, data, languages,
                   filtered, out, panicMsg, exitCode>>

\* the paths array is built whole before any read: each unwrap must succeed
ResolvePaths ==
    /\ pc = "resolve"
    /\ IF exeOk /\ dataDirOk
       THEN /\ pc' = "probe"
            /\ UNCHANGED <<panicMsg, exitCode>>
       ELSE Panic("called Option::unwrap() on a None value")
    /\ UNCHANGED <<cmd, exeOk, dataDirOk, fs, idx, reads, data, languages,
                   filtered, out>>

\* a faulty variant of Probe: the last readable candidate wins (filter_map(..).last())
ProbeTakesLast ==
    /\ pc = "probe"
    /\ reads' = Append(reads, Paths[idx])
    /\ data' = IF fs[Paths[idx]].readable THEN fs[Paths[idx]] ELSE data
    /\ IF idx < NumPaths
       THEN /\ idx' = idx + 1
            /\ UNCHANGED <<pc, panicMsg, exitCode>>
       ELSE /\ UNCHANGED idx
            /\ IF data'.readable
               THEN pc' = "parse" /\ UNCHANGED <<panicMsg, exitCode>>
               ELSE Panic("Could not find languages.json in any of these locations")
    /\ UNCHANGED <<cmd, exeOk, dataDirOk, fs, languages, filtered, out>>

\* one step of paths.iter().find_map(|path| fs::read_to_string(path).ok()),
\* with the unwrap_or_else panic when the iteration ends without a text
Probe ==
    /\ pc = "probe"
    /\ reads' = Append(reads, Paths[idx])
    /\ IF fs[Paths[idx]].readable
       THEN /\ data' = fs[Paths[idx]]
            /\ pc' = "parse"
            /\ UNCHANGED <<idx, panicMsg, exitCode>>
       ELSE IF idx < NumPaths
       THEN /\ idx' = idx + 1
            /\ UNCHANGED <<pc, data, panicMsg, exitCode>>
       ELSE /\ Panic("Could not find languages.json in any of these locations")
            /\ UNCHANGED <<idx, data>>
    /\ UNCHANGED <<cmd, exeOk, dataDirOk, fs, languages, filtered, out>>

\* a faulty variant of ParseJson: a malformed text sends the loader on to the next path
ParseJsonFallsBack ==
    /\ pc = "parse"
    /\ IF data.valid
       THEN /\ languages' = data.catalog
            /\ pc' = "dispatch"
            /\ UNCHANGED <<idx, panicMsg, exitCode>>
       ELSE IF idx < NumPaths
       THEN /\ pc' = "probe"
            /\ idx' = idx + 1
            /\ UNCHANGED <<languages, panicMsg, exitCode>>
       ELSE /\ Panic("Failed to parse JSON data")
            /\ UNCHANGED <<idx, languages>>
    /\ UNCHANGED <<cmd, exeOk, dataDirOk, fs, reads, data, filtered, out>>

\* serde_json::from_str(&data).expect("Failed to parse JSON data")
ParseJson ==
    /\ pc = "parse"
    /\ IF data.valid
       THEN /\ languages' = data.catalog
            /\ pc' = "dispatch"
            /\ UNCHANGED <<panicMsg, exitCode>>
       ELSE /\ Panic("Failed to parse JSON data")
            /\ UNCHANGED languages
    /\ UNCHANGED <<cmd, exeOk, dataDirOk, fs, idx, reads, data, filtered, out>>

(***************************************************************************)
(* Output: a printed line (its format text and arguments) or a table.      *)
(***************************************************************************)
Line(text, args) ==
    [kind |-> "line", text |-> text, args |-> args, header |-> <<>>, rows |-> <<>>]

TableOf(header, rows) ==
    [kind |-> "table", text |-> "", args |-> <<>>, header |-> header, rows |-> rows]

\* print_languages_table: the header row, then one row per record in order
print_languages_table(langs) ==
    TableOf(<<"Name", "Year", "Creators", "Paradigm", "Typing">>,
            [i \in 1..Len(langs) |->
                <<langs[i].name, langs[i].year, JoinComma(langs[i].creators),
                  JoinComma(langs[i].paradigm), langs[i].typing>>])

\* a faulty variant of ReportFiltered: the table is rendered whatever the selection
ReportAlwaysTable(sel, emptyText, foundText, arg) ==
    <<Line(foundText, <<arg>>), print_languages_table(sel)>>

\* the if filtered.is_empty() { println } else { println; table } of a query
ReportFiltered(sel, emptyText, foundText, arg) ==
    IF Len(sel) = 0
    THEN <<Line(emptyText, <<arg>>)>>
    ELSE <<Line(foundText, <<arg>>), print_languages_table(sel)>>

Exit(printed) ==
    /\ out' = printed
    /\ pc' = "exit"
    /\ exitCode' = 0
    /\ UNCHANGED panicMsg

(***************************************************************************)
(* The commands.                                                           *)
(***************************************************************************)
CmdList ==
    /\ pc = "dispatch"
    /\ cmd.op = "list"
    /\ Exit(<<Line("Displaying all programming languages:", <<>>),
              print_languages_table(languages)>>)
    /\ UNCHANGED <<cmd, exeOk, dataDirOk, fs, idx, reads, data, languages, filtered>>

\* the search closure: lang.name.to_lowercase().contains(&name.to_lowercase())
NameMatches(lang, name) ==
    StrContains(ToLowercase(lang.name), ToLowercase(name))

CmdSearch ==
    /\ pc = "dispatch"
    /\ cmd.op = "search"
    /\ filtered' = SelectSeq(languages, LAMBDA lang : NameMatches(lang, cmd.name))
    /\ Exit(ReportFiltered(filtered', "No languages found matching '{}'",
                           "Search results for '{}':", cmd.name))
    /\ UNCHANGED <<cmd, exeOk, dataDirOk, fs, idx, reads, data, languages>>

CmdYear ==
    /\ pc = "dispatch"
    /\ cmd.op = "year"
    /\ filtered' = SelectSeq(languages, LAMBDA lang : lang.year = cmd.year)
    /\ Exit(ReportFiltered(filtered', "No languages created in {}",
                           "Languages created in {}:", cmd.year))
    /\ UNCHANGED <<cmd, exeOk, dataDirOk, fs, idx, reads, data, languages>>

\* a faulty variant of CreatorMatches: every creator has to match (all for any)
CreatorMatchesAll(lang, name) ==
    \A i \in 1..Len(lang.creators) :
        StrContains(ToLowercase(lang.creators[i]), ToLowercase(name))

\* the creator closure: creators.iter().any(|c| c.to_lowercase().contains(..))
CreatorMatches(lang, name) ==
    \E i \in 1..Len(lang.creators) :
        StrContains(ToLowercase(lang.creators[i]), ToLowercase(name))

CmdCreator ==
    /\ pc = "dispatch"
    /\ cmd.op = "creator"
    /\ filtered' = SelectSeq(languages, LAMBDA lang : CreatorMatches(lang, cmd.name))
    /\ Exit(ReportFiltered(filtered', "No languages found created by '{}'",
                           "Languages created by '{}':", cmd.name))
    /\ UNCHANGED <<cmd, exeOk, dataDirOk, fs, idx, reads, data, languages>>

\* a faulty variant of MinByKey: the later of two equal keys is kept
RECURSIVE MinByKeyLast(_, _, _)
MinByKeyLast(langs, best, i) ==
    IF i > Len(langs) THEN best
    ELSE MinByKeyLast(langs, IF langs[best].year < langs[i].year THEN best ELSE i, i + 1)

\* Iterator::min_by_key(|l| l.year) as the fold it is: the element kept so far
\* is replaced only by a strictly smaller key.  The result is an index into
\* langs; the caller passes best = 1, i = 2, and an empty langs has no minimum.
RECURSIVE MinByKey(_, _, _)
MinByKey(langs, best, i) ==
    IF i > Len(langs) THEN best
    ELSE MinByKey(langs, IF langs[best].year > langs[i].year THEN i ELSE best, i + 1)

\* a faulty variant of MaxByKey: the earlier of two equal keys is kept
RECURSIVE MaxByKeyFirst(_, _, _)
MaxByKeyFirst(langs, best, i) ==
    IF i > Len(langs) THEN best
    ELSE MaxByKeyFirst(langs, IF langs[i].year > langs[best].year THEN i ELSE best, i + 1)

\* Iterator::max_by_key(|l| l.year) as the fold it is: the element kept so far
\* stays only while its key is strictly greater than the next one's.
RECURSIVE MaxByKey(_, _, _)
MaxByKey(langs, best, i) ==
    IF i > Len(langs) THEN best
    ELSE MaxByKey(langs, IF langs[best].year > langs[i].year THEN best ELSE i, i + 1)

\* *paradigm_counts.entry(paradigm).or_insert(0) += 1
BumpEntry(counts, p) ==
    IF p \in DOMAIN counts
    THEN [counts EXCEPT ![p] = @ + 1]
    ELSE [t \in DOMAIN counts \cup {p} |-> IF t = p THEN 1 ELSE counts[t]]

\* a faulty variant of CountTags: a tag a record repeats is counted once for the record
RECURSIVE CountTagsOnce(_, _)
CountTagsOnce(counts, ps) ==
    IF Len(ps) = 0 THEN counts
    ELSE IF \E i \in 2..Len(ps) : ps[i] = Head(ps)
    THEN CountTagsOnce(counts, Tail(ps))
    ELSE CountTagsOnce(BumpEntry(counts, Head(ps)), Tail(ps))

\* the inner loop: for paradigm in &lang.paradigm
RECURSIVE CountTags(_, _)
CountTags(counts, ps) ==
    IF Len(ps) = 0 THEN counts
    ELSE CountTags(BumpEntry(counts, Head(ps)), Tail(ps))

\* the outer loop: for lang in &languages
RECURSIVE ParadigmCounts(_, _)
ParadigmCounts(counts, langs) ==
    IF Len(langs) = 0 THEN counts
    ELSE ParadigmCounts(CountTags(counts, Head(langs).paradigm), Tail(langs))

EmptyMap == [t \in {} |-> 0]

\* the orders a HashMap may be iterated in: any order of its keys
IterationOrders(counts) ==
    {f \in [1..Cardinality(DOMAIN counts) -> DOMAIN counts] :
        \A i, j \in DOMAIN f : i # j => f[i] # f[j]}

\* what stats prints once earliest and latest are known
StatsReport(langs, order) ==
    LET earliest == langs[MinByKey(langs, 1, 2)]
        latest == langs[MaxByKey(langs, 1, 2)]
        paradigm_counts == ParadigmCounts(EmptyMap, langs)
    IN  <<Line("Programming Language Statistics:", <<>>),
          Line("- Total languages: {}", <<Len(langs)>>),
          Line("- Earliest language: {} ({})", <<earliest.name, earliest.year>>),
          Line("- Latest language: {} ({})", <<latest.name, latest.year>>),
          Line("Paradigm Counts:", <<>>),
          TableOf(<<"Paradigm", "Count">>,
                  [i \in 1..Len(order) |-> <<order[i], paradigm_counts[order[i]]>>])>>

\* a faulty variant of CmdStats: the heading is printed before earliest is unwrapped
CmdStatsHeadingFirst ==
    /\ pc = "dispatch"
    /\ cmd.op = "stats"
    /\ IF Len(languages) = 0
       THEN /\ Panic("called Option::unwrap() on a None value")
            /\ out' = <<Line("Programming Language Statistics:", <<>>)>>
       ELSE \E order \in IterationOrders(ParadigmCounts(EmptyMap, languages)) :
                Exit(StatsReport(languages, order))
    /\ UNCHANGED <<cmd, exeOk, dataDirOk, fs, idx, reads, data, languages, filtered>>

\* min_by_key on an empty iterator is None and the unwrap panics before any
\* println; otherwise the report is printed, the table in the map's order
CmdStats ==
    /\ pc = "dispatch"
    /\ cmd.op = "stats"
    /\ IF Len(languages) = 0
       THEN /\ Panic("called Option::unwrap() on a None value")
            /\ UNCHANGED out
       ELSE \E order \in IterationOrders(ParadigmCounts(EmptyMap, languages)) :
                Exit(StatsReport(languages, order))
    /\ UNCHANGED <<cmd, exeOk, dataDirOk, fs, idx, reads, data, languages, filtered>>

Next ==
    \/ ResolvePaths
    \/ Probe
    \/ ParseJson
    \/ CmdList
    \/ CmdSearch
    \/ CmdYear
    \/ CmdCreator
    \/ CmdStats

Spec == Init /\ [][Next]_vars

(***************************************************************************)
(* Vocabulary of the properties, stated without the operators above.       *)
(***************************************************************************)
\* the run got a catalog out of load_languages
Loaded == data.valid /\ pc \in {"dispatch", "exit", "panicked"}

\* the command op ran to its end and the process exited normally
Ran(op) == cmd.op = op /\ pc = "exit"

\* two characters are the same letter, whatever their case
SameLetter(c, d) ==
    \/ c = d
    \/ {c, d} = {"a", "A"}
    \/ {c, d} = {"b", "B"}

\* q occurs in s at some offset, letter by letter, case ignored
CiContains(s, q) ==
    \E k \in 0..(Len(s) - Len(q)) :
        \A j \in 1..Len(q) : SameLetter(s[k + j], q[j])

\* the n-th smallest member of a set of indices
NthOf(I, n) == CHOOSE i \in I : Cardinality({k \in I : k < i}) = n - 1

\* sel is the subsequence of cat at the indices I, in the order of cat
IsSubsequenceAt(sel, cat, I) ==
    /\ Len(sel) = Cardinality(I)
    /\ \A n \in 1..Len(sel) : sel[n] = cat[NthOf(I, n)]

\* out holds the line with this format text and these arguments
Printed(text, args) ==
    \E k \in 1..Len(out) :
        out[k].kind = "line" /\ out[k].text = text /\ out[k].args = args

HasTable == \E k \in 1..Len(out) : out[k].kind = "table"

MaxYearIdx(cat) == {i \in 1..Len(cat) : \A j \in 1..Len(cat) : cat[j].year <= cat[i].year}
MinYearIdx(cat) == {i \in 1..Len(cat) : \A j \in 1..Len(cat) : cat[i].year <= cat[j].year}

FirstOf(I) == CHOOSE i \in I : \A j \in I : i <= j
LastOf(I) == CHOOSE i \in I : \A j \in I : j <= i

\* C1 (as amended): after stats on a non-empty catalog the 'latest' line names
\* a record of maximum year, and among several of that year the LAST of them
\* in catalog order.
C1_LatestIsLastOfMaxYear ==
    Ran("stats") =>
        LET i == LastOf(MaxYearIdx(languages))
        IN  Printed("- Latest language: {} ({})",
                    <<languages[i].name, languages[i].year>>)

\* C1 (as claimed): the 'latest' line names the FIRST record of maximum year.
C1_LatestIsFirstOfMaxYear ==
    Ran("stats") =>
        LET i == FirstOf(MaxYearIdx(languages))
        IN  Printed("- Latest language: {} ({})",
                    <<languages[i].name, languages[i].year>>)

\* stats has run on a catalog where two records of different names share the
\* maximum year
C1_Witness ==
    /\ Ran("stats")
    /\ \E i, j \in MaxYearIdx(languages) : languages[i].name # languages[j].name

\* the number of entries of ps equal to p
Occurrences(ps, p) == Cardinality({k \in 1..Len(ps) : ps[k] = p})

RECURSIVE SumOver(_, _, _)
SumOver(cat, p, n) ==
    IF n = 0 THEN 0 ELSE Occurrences(cat[n].paradigm, p) + SumOver(cat, p, n - 1)

TagsOf(cat) == UNION {{cat[i].paradigm[k] : k \in 1..Len(cat[i].paradigm)} : i \in 1..Len(cat)}

\* the counts the paradigm table shows for tag p, one per row of p
CountsShown(p) ==
    LET t == out[Len(out)]
    IN  {<<k, t.rows[k][2]>> : k \in {r \in 1..Len(t.rows) : t.rows[r][1] = p}}

\* C2 (as amended): after stats on a non-empty catalog the paradigm table has
\* one row for every tag of the catalog, and its count is the number of times
\* the tag is listed over all records (a record listing it twice adds two).
C2_CountIsOccurrences ==
    Ran("stats") =>
        /\ out[Len(out)].kind = "table"
        /\ \A p \in TagsOf(languages) :
            \E k \in 1..Len(out[Len(out)].rows) :
                CountsShown(p) = {<<k, SumOver(languages, p, Len(languages))>>}

\* C2 (as claimed): the count of a tag is the number of records that list it.
C2_CountIsRecords ==
    Ran("stats") =>
        /\ out[Len(out)].kind = "table"
        /\ \A p \in TagsOf(languages) :
            \E k \in 1..Len(out[Len(out)].rows) :
                CountsShown(p) =
                    {<<k, Cardinality({i \in 1..Len(languages) :
                            Occurrences(languages[i].paradigm, p) > 0})>>}

\* stats has run on a catalog with a record that lists one tag twice
C2_Witness ==
    /\ Ran("stats")
    /\ \E i \in 1..Len(languages) : \E p \in TagsOf(languages) :
        Occurrences(languages[i].paradigm, p) > 1

\* C3: search selects exactly the records whose name contains the query, case
\* ignored, in catalog order; the empty query selects the whole catalog.
C3_SearchSelectsCiSubstring ==
    Ran("search") =>
        /\ IsSubsequenceAt(filtered, languages,
               {i \in 1..Len(languages) : CiContains(languages[i].name, cmd.name)})
        /\ cmd.name = <<>> => filtered = languages

\* search for "A" has run on <<"b", "Ba">>: the match is inside the name and
\* in the other case, and the first record is left out
C3_Witness ==
    /\ Ran("search")
    /\ cmd.name = <<"A">>
    /\ Len(languages) = 2
    /\ languages[1].name = <<"b">>
    /\ languages[2].name = <<"B", "a">>
    /\ filtered = <<languages[2]>>

\* search with the empty query has run on a catalog of two records
C3_WitnessEmptyQuery ==
    /\ Ran("search")
    /\ cmd.name = <<>>
    /\ Len(filtered) = 2

\* C4: creator selects exactly the records with at least one creator that
\* contains the query, case ignored, in catalog order; a record without
\* creators is never selected.
C4_CreatorSelectsAnyMatch ==
    Ran("creator") =>
        /\ IsSubsequenceAt(filtered, languages,
               {i \in 1..Len(languages) :
                    \E c \in 1..Len(languages[i].creators) :
                        CiContains(languages[i].creators[c], cmd.name)})
        /\ \A n \in 1..Len(filtered) : filtered[n].creators # <<>>

\* creator "a" has run on a record without creators followed by one whose
\* second creator alone contains the query, in the other case
C4_Witness ==
    /\ Ran("creator")
    /\ cmd.name = <<"a">>
    /\ Len(languages) = 2
    /\ languages[1].creators = <<>>
    /\ languages[2].creators = << <<"b">>, <<"b", "A">> >>
    /\ filtered = <<languages[2]>>

\* the four locations in the order the loader is to probe them
ProbeOrder ==
    <<"languages.json", "<exe dir>/languages.json",
      "/usr/local/share/kapa/languages.json",
      "<data_local_dir>/kapa/languages.json">>

ReadableAt == {k \in 1..Len(ProbeOrder) : fs[ProbeOrder[k]].readable}

\* C5: the files are read in the fixed order, every read but the last one
\* failed (nothing is read after a successful read), and the catalog the
\* loader returns is the content of the first readable candidate.
C5_FirstReadableWins ==
    /\ Len(reads) <= Len(ProbeOrder)
    /\ \A k \in 1..Len(reads) : reads[k] = ProbeOrder[k]
    /\ \A k \in 1..(Len(reads) - 1) : ~fs[reads[k]].readable
    /\ Loaded => /\ ReadableAt # {}
                 /\ languages = fs[ProbeOrder[FirstOf(ReadableAt)]].catalog
                 /\ Len(reads) = FirstOf(ReadableAt)

\* the loader has returned the second candidate's catalog: the first is
\* unreadable, the third is readable too and holds another catalog
C5_Witness ==
    /\ pc = "dispatch"
    /\ ~fs[ProbeOrder[1]].readable
    /\ fs[ProbeOrder[2]].valid
    /\ fs[ProbeOrder[3]].valid
    /\ fs[ProbeOrder[3]].catalog # fs[ProbeOrder[2]].catalog
    /\ languages = fs[ProbeOrder[2]].catalog
    /\ languages # <<>>
    /\ reads = <<ProbeOrder[1], ProbeOrder[2]>>

FirstReadableMalformed ==
    /\ ReadableAt # {}
    /\ ~fs[ProbeOrder[FirstOf(ReadableAt)]].valid

\* C6: when the paths resolve and the first readable candidate is malformed,
\* the run never gets a catalog: no candidate after the malformed one is
\* read, nothing is printed, and the run ends in the parse panic with a
\* nonzero exit, whatever the later candidates hold.
C6_MalformedCommits ==
    (exeOk /\ dataDirOk /\ FirstReadableMalformed) =>
        /\ pc \in {"resolve", "probe", "parse", "panicked"}
        /\ languages = <<>>
        /\ out = <<>>
        /\ Len(reads) <= FirstOf(ReadableAt)
        /\ pc = "panicked" =>
            /\ panicMsg = "Failed to parse JSON data"
            /\ exitCode > 0
            /\ Len(reads) = FirstOf(ReadableAt)

\* the run has panicked on a malformed second candidate while the third
\* candidate holds a catalog that parses
C6_Witness ==
    /\ pc = "panicked"
    /\ panicMsg = "Failed to parse JSON data"
    /\ FirstOf(ReadableAt) = 2
    /\ fs[ProbeOrder[3]].valid
    /\ fs[ProbeOrder[3]].catalog # <<>>

\* C7: stats on a loaded catalog of no records ends in a panic with a
\* nonzero exit, and nothing has been printed.
C7_StatsOnEmptyPanicsSilently ==
    (cmd.op = "stats" /\ Loaded /\ languages = <<>> /\ pc # "dispatch") =>
        /\ pc = "panicked"
        /\ exitCode > 0
        /\ out = <<>>

\* stats has been run on a catalog that parsed to no records
C7_Witness ==
    /\ cmd.op = "stats"
    /\ Loaded
    /\ languages = <<>>
    /\ pc = "panicked"

NoResultTexts ==
    {"No languages found matching '{}'", "No languages created in {}",
     "No languages found created by '{}'"}

\* the sequence of records the command yielded
Yielded == IF cmd.op = "list" THEN languages ELSE filtered

\* C8 (as amended): when search, year or creator selects nothing, the one
\* thing printed is that command's 'no results' line, no table is rendered
\* and the exit is a success; list on an empty catalog prints its heading and
\* a table of the header row alone, and exits with success.
C8_EmptyQueryResultHasNoTable ==
    /\ (pc = "exit" /\ cmd.op \in {"search", "year", "creator"} /\ filtered = <<>>) =>
        /\ Len(out) = 1
        /\ out[1].kind = "line"
        /\ out[1].text \in NoResultTexts
        /\ ~HasTable
        /\ exitCode = 0
    /\ (Ran("list") /\ languages = <<>>) =>
        /\ Len(out) = 2
        /\ out[2].kind = "table"
        /\ out[2].rows = <<>>
        /\ exitCode = 0

\* C8 (as claimed): whichever of list, search, year and creator yields no
\* record, a 'no results' line is printed and no table is rendered.
C8_EmptyResultHasNoTable ==
    (pc = "exit" /\ cmd.op \in {"list", "search", "year", "creator"} /\ Yielded = <<>>) =>
        /\ \E k \in 1..Len(out) : out[k].kind = "line" /\ out[k].text \in NoResultTexts
        /\ ~HasTable
        /\ exitCode = 0

\* search has run on a catalog with records and selected none of them
C8_Witness ==
    /\ Ran("search")
    /\ languages # <<>>
    /\ filtered = <<>>

\* list has run on a catalog of no records
C8_WitnessList ==
    /\ Ran("list")
    /\ languages = <<>>

\* C9: after stats on a non-empty catalog the 'earliest' line names a record
\* of minimum year, the first of them in catalog order, and the total
\* printed is the length of the catalog.
C9_EarliestIsFirstOfMinYear ==
    Ran("stats") =>
        LET i == FirstOf(MinYearIdx(languages))
        IN  /\ Printed("- Earliest language: {} ({})",
                       <<languages[i].name, languages[i].year>>)
            /\ Printed("- Total languages: {}", <<Len(languages)>>)

\* stats has run on a catalog where two records of different names share the
\* minimum year
C9_Witness ==
    /\ Ran("stats")
    /\ \E i, j \in MinYearIdx(languages) : languages[i].name # languages[j].name

\* C10: when the executable's directory or the user local-data directory
\* does not resolve, no candidate is ever read and no catalog is loaded: the
\* run panics with a nonzero exit, whatever the first candidate holds.
C10_ResolutionBeforeProbing ==
    ~(exeOk /\ dataDirOk) =>
        /\ reads = <<>>
        /\ languages = <<>>
        /\ out = <<>>
        /\ pc \in {"resolve", "panicked"}
        /\ pc = "panicked" => exitCode > 0

\* the run has panicked on a failed resolution although languages.json in the
\* working directory is readable and holds a catalog with a record
C10_Witness ==
    /\ pc = "panicked"
    /\ ~dataDirOk
    /\ exeOk
    /\ fs[ProbeOrder[1]].valid
    /\ fs[ProbeOrder[1]].catalog # <<>>

====
